---- MODULE Spec2Model ----
(***************************************************************************)
(* Order lifecycle of the point-of-sale application: the in-memory store   *)
(* (server/storage.ts, MemStorage), the HTTP routes that drive it          *)
(* (registerRoutes) and the register client's createOrder.                 *)
(*                                                                         *)
(* Strings of the program are modelled as follows.  An order number        *)
(* "#<n>" is the tuple <<"#", n>> and the empty string is <<>>.  The       *)
(* category "お酒" is "alcohol" and "ソフトドリンク" is "soft".            *)
(* Timestamps (createdAt, updatedAt) are not modelled.                     *)
(***************************************************************************)
EXTENDS Integers, Sequences, FiniteSets, TLC

VARIABLES
  store,    \* the MemStorage singleton: its three maps and four counters
  resp,     \* the last HTTP exchange: the request and the response sent
  clients,  \* per register client: position in createOrder, cart, number read
  procs     \* in-flight route handlers, each suspended at an await

vars == <<store, resp, clients, procs>>

-----------------------------------------------------------------------------
(* Bounds of the model *)

MaxOrders == 1      \* orders created in a behaviour
MaxItemId == 2      \* order item ids handed out in a behaviour
MaxQty == 1         \* largest quantity of a request line or a cart entry
MaxClients == 2     \* register clients
MaxCheckouts == 2   \* calls of the clients' createOrder in a behaviour
MaxInFlight == 2    \* route handlers in flight at a time
MaxNumbered == 3    \* orders created in a behaviour of SpecNumbers
MaxCartQty == 2     \* largest quantity of a cart entry in SpecCart
MaxStored == 2      \* orders created in a behaviour of SpecStore

-----------------------------------------------------------------------------
(* Values *)

EmptyString == <<>>
OrderNumberString(n) == <<"#", n>>

Statuses == {"new", "in-progress", "ready"}

Max(a, b) == IF a >= b THEN a ELSE b

\* The keys of a JS Map whose keys were inserted in increasing order, in
\* iteration order.
RECURSIVE SortedKeys(_)
SortedKeys(S) ==
  IF S = {} THEN <<>>
  ELSE LET m == CHOOSE x \in S : \A y \in S : x <= y
       IN <<m>> \o SortedKeys(S \ {m})

\* Map.set(k, v)
MapSet(f, k, v) == [x \in DOMAIN f \cup {k} |-> IF x = k THEN v ELSE f[x]]
\* Map.delete(k)
MapDelete(f, k) == [x \in DOMAIN f \ {k} |-> f[x]]

EmptyMap == [x \in {} |-> 0]

-----------------------------------------------------------------------------
(* MemStorage *)

MenuItem(price, category) == [price |-> price, category |-> category]

\* initializeMenuItems: ids 1..7 in the order of defaultItems
SeedMenuItems ==
  [id \in 1..7 |->
     CASE id = 1 -> MenuItem(75000, "alcohol")
       [] id = 2 -> MenuItem(80000, "alcohol")
       [] id = 3 -> MenuItem(85000, "alcohol")
       [] id = 4 -> MenuItem(78000, "alcohol")
       [] id = 5 -> MenuItem(78000, "alcohol")
       [] id = 6 -> MenuItem(70000, "alcohol")
       [] id = 7 -> MenuItem(55000, "soft")]

\* constructor
NewMemStorage ==
  [menuItems |-> SeedMenuItems,
   orders |-> EmptyMap,
   orderItems |-> EmptyMap,
   menuItemIdCounter |-> 8,
   orderIdCounter |-> 1,
   orderItemIdCounter |-> 1,
   orderNumberCounter |-> 1000]

\* getMenuItemById: the item, or undefined (known = FALSE)
getMenuItemById(st, id) ==
  IF id \in DOMAIN st.menuItems
  THEN [known |-> TRUE, category |-> st.menuItems[id].category]
  ELSE [known |-> FALSE, category |-> "undefined"]

\* createMenuItem
createMenuItem(st, item) ==
  LET id == st.menuItemIdCounter
  IN [st EXCEPT !.menuItemIdCounter = id + 1,
                !.menuItems = MapSet(@, id, item)]

\* createOrder: orderData is the parsed {orderNumber, totalAmount}
createOrder(st, orderData) ==
  LET id == st.orderIdCounter
      assigned == orderData.orderNumber = EmptyString
      orderNumber == IF assigned
                     THEN OrderNumberString(st.orderNumberCounter)
                     ELSE orderData.orderNumber
      order == [orderNumber |-> orderNumber,
                totalAmount |-> orderData.totalAmount,
                status |-> "in-progress"]
  IN [st EXCEPT !.orderIdCounter = id + 1,
                !.orderNumberCounter = IF assigned THEN @ + 1 ELSE @,
                !.orders = MapSet(@, id, order)]

\* updateOrderStatus
updateOrderStatus(st, id, status) ==
  IF id \notin DOMAIN st.orders THEN st
  ELSE [st EXCEPT !.orders = MapSet(@, id, [@[id] EXCEPT !.status = status])]

\* deleteOrder
deleteOrder(st, id) == [st EXCEPT !.orders = MapDelete(@, id)]

\* getOrderItemsByOrderId: ids of the order's items in Map iteration order
getOrderItemsByOrderId(st, orderId) ==
  SortedKeys({k \in DOMAIN st.orderItems : st.orderItems[k].orderId = orderId})

\* A createOrderItem that takes the smallest id that is not in the map.
createOrderItem_reuse(st, item) ==
  LET id == CHOOSE i \in 1..(Cardinality(DOMAIN st.orderItems) + 1) :
              /\ i \notin DOMAIN st.orderItems
              /\ \A j \in 1..(i - 1) : j \in DOMAIN st.orderItems
  IN [st EXCEPT !.orderItemIdCounter = @ + 1,
                !.orderItems = MapSet(@, id, item)]

\* createOrderItem
createOrderItem(st, item) ==
  LET id == st.orderItemIdCounter
  IN [st EXCEPT !.orderItemIdCounter = id + 1,
                !.orderItems = MapSet(@, id, item)]

\* A deleteOrderItemsByOrderId that keeps the items it was asked to delete.
deleteOrderItemsByOrderId_keep(st, orderId) == st

\* A deleteOrderItemsByOrderId that clears the map and re-adds nothing.
deleteOrderItemsByOrderId_clear(st, orderId) ==
  [st EXCEPT !.orderItems = EmptyMap]

\* deleteOrderItemsByOrderId: clear the map, re-add the items of other orders
deleteOrderItemsByOrderId(st, orderId) ==
  LET itemsToKeep == {k \in DOMAIN st.orderItems :
                        st.orderItems[k].orderId # orderId}
  IN [st EXCEPT !.orderItems = [k \in itemsToKeep |-> st.orderItems[k]]]

\* The join computed by getOrderWithItems from an order record and item ids
\* read earlier.
JoinItems(st, itemIds) ==
  [i \in 1..Len(itemIds) |->
     LET it == st.orderItems[itemIds[i]]
     IN [id |-> itemIds[i],
         menuItemId |-> it.menuItemId,
         quantity |-> it.quantity,
         menuItem |-> getMenuItemById(st, it.menuItemId)]]

NotFound == [found |-> FALSE, orderNumber |-> EmptyString, status |-> "none",
             totalAmount |-> 0, items |-> <<>>]

\* getOrderWithItems, run without interruption
getOrderWithItems(st, orderId) ==
  IF orderId \notin DOMAIN st.orders THEN NotFound
  ELSE LET o == st.orders[orderId]
       IN [found |-> TRUE, orderNumber |-> o.orderNumber, status |-> o.status,
           totalAmount |-> o.totalAmount,
           items |-> JoinItems(st, getOrderItemsByOrderId(st, orderId))]

-----------------------------------------------------------------------------
(* updateOrderWithItems *)

RECURSIVE SumQuantity(_, _)
\* items.reduce((total, item) => total + (pred(item) ? item.quantity : 0), 0)
SumQuantity(items, counted) ==
  IF items = <<>> THEN 0
  ELSE (IF counted[1] THEN items[1].quantity ELSE 0)
       + SumQuantity(Tail(items), Tail(counted))

\* The tier price of a pooled count of drinks: 1500 per set of three,
\* 700 for one more, 1200 for two more (amounts are yen x 100).
TierPrice(totalDrinks) ==
  LET fullSets == totalDrinks \div 3
      remainder == totalDrinks % 3
  IN fullSets * 150000
     + (IF remainder = 1 THEN 70000 ELSE IF remainder = 2 THEN 120000 ELSE 0)

\* The totalAmount updateOrderWithItems computes for items: every unit is
\* pooled, each unit of a menu item of category "soft" is discounted by 200,
\* and a line whose menu item is undefined is counted but never discounted.
ComputeTotalAmount(st, items) ==
  LET all == [i \in 1..Len(items) |-> TRUE]
      soft == [i \in 1..Len(items) |->
                 getMenuItemById(st, items[i].menuItemId).category = "soft"]
      totalDrinks == SumQuantity(items, all)
      softDrinks == SumQuantity(items, soft)
      price == TierPrice(totalDrinks)
      discount == softDrinks * 20000
  IN Max(0, price - discount)

\* this.orders.set(id, {...existingOrder, ...orderData, totalAmount}) followed,
\* in the same synchronous stretch, by the call of deleteOrderItemsByOrderId
SetOrderAndDeleteItems(st, id, existingOrder, orderData, totalAmount) ==
  LET updatedOrder == [existingOrder EXCEPT
                         !.orderNumber = orderData.orderNumber,
                         !.status = orderData.status,
                         !.totalAmount = totalAmount]
  IN deleteOrderItemsByOrderId(
       [st EXCEPT !.orders = MapSet(@, id, updatedOrder)], id)

\* One turn of the loop that recreates the items: price is stored as 0
CreateEditedItem(st, id, item) ==
  createOrderItem(st, [orderId |-> id, menuItemId |-> item.menuItemId,
                       quantity |-> item.quantity, price |-> 0])

RECURSIVE CreateEditedItems(_, _, _)
CreateEditedItems(st, id, items) ==
  IF items = <<>> THEN st
  ELSE CreateEditedItems(CreateEditedItem(st, id, items[1]), id, Tail(items))

\* updateOrderWithItems run without interruption: the store afterwards
\* (unchanged when the order does not exist)
updateOrderWithItems(st, id, orderData, items) ==
  IF id \notin DOMAIN st.orders THEN st
  ELSE CreateEditedItems(
         SetOrderAndDeleteItems(st, id, st.orders[id], orderData,
                                ComputeTotalAmount(st, items)),
         id, items)

-----------------------------------------------------------------------------
(* Requests *)

\* Menu item ids of the catalog that request lines name: an alcoholic drink
\* and the soft drink
RequestMenuIds == {1, 7}

ItemFields == {"menuItemId", "quantity", "price"}

\* A line of a request's items array.  fields are the keys that are present
\* and hold a number; a key that is absent has the value 0 here.
Line(menuItemId, quantity) ==
  [fields |-> ItemFields, menuItemId |-> menuItemId, quantity |-> quantity,
   price |-> 0]

\* Lines with a positive quantity
PositiveLines == {Line(m, q) : m \in RequestMenuIds, q \in 1..MaxQty}

\* A line with quantity 0, a line that lacks quantity and price, and a line
\* that names a menu item id that is not in the catalog
ZeroLine == Line(1, 0)
MalformedLine == [fields |-> {"menuItemId"}, menuItemId |-> 1, quantity |-> 0,
                  price |-> 0]
UnknownLine == Line(8, 1)

\* Item lists of positive lines as a cart produces them: at most one line
\* per menu item, here in the order of the menu item ids
PositiveLists ==
  {[i \in 1..Len(SortedKeys(DOMAIN q)) |->
      Line(SortedKeys(DOMAIN q)[i], q[SortedKeys(DOMAIN q)[i]])] :
     q \in UNION {[S -> 1..MaxQty] : S \in SUBSET RequestMenuIds}}

\* Item lists of a request: positive lines of the catalog, or one of the
\* three other lines, alone or after a positive line
ItemLists ==
  PositiveLists
  \cup {<<other>> : other \in {ZeroLine, MalformedLine, UnknownLine}}
  \cup {<<Line(1, 1), other>> :
          other \in {ZeroLine, MalformedLine, UnknownLine}}

\* Order numbers a request may carry
RequestOrderNumbers == {EmptyString, OrderNumberString(1)}

\* The body of a request.  fields are the keys of the order that are present
\* and well typed; a key that a request does not carry is "none", 0 or <<>>.
NoBody == [fields |-> {}, orderNumber |-> EmptyString, totalAmount |-> 0,
           status |-> "none", items |-> <<>>]

\* Bodies of POST /api/orders, the last one without an order number
CreateBodies ==
  [fields : {{"orderNumber", "totalAmount"}},
   orderNumber : RequestOrderNumbers,
   totalAmount : {70000},
   status : {"none"},
   items : ItemLists]
  \cup {[fields |-> {"totalAmount"}, orderNumber |-> EmptyString,
         totalAmount |-> 70000, status |-> "none",
         items |-> <<Line(1, 1)>>]}

\* Bodies of PATCH /api/orders/:id/status
StatusBodies ==
  [fields : {{"status"}}, orderNumber : {EmptyString}, totalAmount : {0},
   status : Statuses \cup {"bogus"}, items : {<<>>}]

\* Bodies of PATCH /api/orders/:id: the edit dialog sends the order number
\* and the status of its cached copy of the order
EditBodies ==
  [fields : {{"orderNumber", "status", "items"}},
   orderNumber : {OrderNumberString(1)},
   totalAmount : {0},
   status : {"in-progress", "ready"},
   items : ItemLists]
  \cup {[fields |-> {"orderNumber", "items"},
         orderNumber |-> OrderNumberString(1), totalAmount |-> 0,
         status |-> "bogus", items |-> <<>>]}

\* Ids a request may address: the ids createOrder hands out in a behaviour,
\* whether handed out already or not
RequestOrderIds == 1..MaxOrders

-----------------------------------------------------------------------------
(* Routes, each run without interruption: the store afterwards, the status *)
(* code and the order-with-items of the response                           *)

Reply(st, code, body) == [store |-> st, code |-> code, body |-> body]

\* insertOrderSchema.parse
InsertOrderSchemaOk(body) == {"orderNumber", "totalAmount"} \subseteq body.fields

\* insertOrderItemSchema.parse({...item, orderId})
InsertOrderItemSchemaOk(line) == ItemFields \subseteq line.fields

\* One turn of the loop of POST /api/orders over req.body.items
PostOrderItem(st, orderId, line) ==
  createOrderItem(st, [orderId |-> orderId, menuItemId |-> line.menuItemId,
                       quantity |-> line.quantity, price |-> line.price])

RECURSIVE PostOrderItems(_, _, _)
\* The loop: stops at the first line the schema rejects (ZodError)
PostOrderItems(st, orderId, items) ==
  IF items = <<>> THEN [store |-> st, ok |-> TRUE]
  ELSE IF ~InsertOrderItemSchemaOk(items[1]) THEN [store |-> st, ok |-> FALSE]
  ELSE PostOrderItems(PostOrderItem(st, orderId, items[1]), orderId,
                      Tail(items))

\* POST /api/orders
PostOrder(st, body) ==
  IF ~InsertOrderSchemaOk(body) THEN Reply(st, 400, NotFound)
  ELSE LET orderId == st.orderIdCounter
           created == createOrder(st, [orderNumber |-> body.orderNumber,
                                       totalAmount |-> body.totalAmount])
           looped == PostOrderItems(created, orderId, body.items)
       IN IF looped.ok
          THEN Reply(looped.store, 201, getOrderWithItems(looped.store, orderId))
          ELSE Reply(looped.store, 400, NotFound)

\* PATCH /api/orders/:id/status: the response is the order without items
PatchOrderStatus(st, id, status) ==
  IF status \notin Statuses THEN Reply(st, 400, NotFound)
  ELSE IF id \notin DOMAIN st.orders THEN Reply(st, 404, NotFound)
  ELSE LET updated == updateOrderStatus(st, id, status)
       IN Reply(updated, 200,
                [getOrderWithItems(updated, id) EXCEPT !.items = <<>>])

\* updateOrderSchema.parse: items is an array (it may be empty) of lines with
\* a menuItemId and a positive quantity
UpdateOrderSchemaOk(body) ==
  /\ body.status \in Statuses
  /\ \A i \in 1..Len(body.items) :
       /\ {"menuItemId", "quantity"} \subseteq body.items[i].fields
       /\ body.items[i].quantity > 0

\* PATCH /api/orders/:id
PatchOrder(st, id, body) ==
  IF ~UpdateOrderSchemaOk(body) THEN Reply(st, 400, NotFound)
  ELSE IF id \notin DOMAIN st.orders THEN Reply(st, 404, NotFound)
  ELSE LET updated == updateOrderWithItems(
                        st, id,
                        [orderNumber |-> body.orderNumber,
                         status |-> body.status],
                        body.items)
       IN Reply(updated, 200, getOrderWithItems(updated, id))

\* A DELETE /api/orders/:id that deletes the order and leaves its items.
DeleteOrder_orderOnly(st, id) ==
  IF id \notin DOMAIN st.orders THEN Reply(st, 404, NotFound)
  ELSE Reply(deleteOrder(st, id), 204, NotFound)

\* A DELETE /api/orders/:id that answers 204 whether or not there was an
\* order to delete.
DeleteOrder_silent(st, id) ==
  Reply(deleteOrder(deleteOrderItemsByOrderId(st, id), id), 204, NotFound)

\* DELETE /api/orders/:id: the items are deleted first, then the order
DeleteOrder(st, id) ==
  LET without == deleteOrderItemsByOrderId(st, id)
  IN IF id \notin DOMAIN without.orders THEN Reply(without, 404, NotFound)
     ELSE Reply(deleteOrder(without, id), 204, NotFound)

\* POST /api/menu-items with a body that insertMenuItemSchema accepts
PostMenuItem(st, item) == Reply(createMenuItem(st, item), 201, NotFound)

\* GET /api/orders/:id: the order without items
GetOrderOnly(st, id) ==
  IF id \in DOMAIN st.orders
  THEN Reply(st, 200, [getOrderWithItems(st, id) EXCEPT !.items = <<>>])
  ELSE Reply(st, 404, NotFound)

\* GET /api/orders/:id?withItems=true
GetOrder(st, id) ==
  LET order == getOrderWithItems(st, id)
  IN IF order.found THEN Reply(st, 200, order) ELSE Reply(st, 404, NotFound)

-----------------------------------------------------------------------------
(* The register client: the cart and createOrder of useOrderStore.  A cart *)
(* entry holds the menu item's id in place of the menu item.               *)

Clients == 1..MaxClients

\* A client that is not in createOrder, with an empty cart
IdleClient == [pc |-> "idle", cartItems |-> <<>>, snapshot |-> <<>>,
               body |-> NoBody, checkouts |-> 0]

\* findIndex of the entry of menuItemId (0 when there is none)
FindIndex(cartItems, menuItemId) ==
  IF \E i \in 1..Len(cartItems) : cartItems[i].menuItemId = menuItemId
  THEN CHOOSE i \in 1..Len(cartItems) :
         /\ cartItems[i].menuItemId = menuItemId
         /\ \A j \in 1..(i - 1) : cartItems[j].menuItemId # menuItemId
  ELSE 0

\* addItemToCart
addItemToCart(cartItems, menuItemId) ==
  LET existingItemIndex == FindIndex(cartItems, menuItemId)
  IN IF existingItemIndex > 0
     THEN [cartItems EXCEPT ![existingItemIndex].quantity = @ + 1]
     ELSE Append(cartItems, [menuItemId |-> menuItemId, quantity |-> 1])

\* A removeItemFromCart that removes the first entry of the cart when the
\* item is not in it.
removeItemFromCart_first(cartItems, menuItemId) ==
  IF \E i \in 1..Len(cartItems) : cartItems[i].menuItemId = menuItemId
  THEN SelectSeq(cartItems, LAMBDA item : item.menuItemId # menuItemId)
  ELSE SubSeq(cartItems, 2, Len(cartItems))

\* removeItemFromCart
removeItemFromCart(cartItems, menuItemId) ==
  SelectSeq(cartItems, LAMBDA item : item.menuItemId # menuItemId)

\* An updateItemQuantity that keeps the entries whose quantity is not
\* positive.
updateItemQuantity_keep(cartItems, menuItemId, quantity) ==
  [i \in 1..Len(cartItems) |->
     IF cartItems[i].menuItemId = menuItemId
     THEN [cartItems[i] EXCEPT !.quantity = quantity]
     ELSE cartItems[i]]

\* updateItemQuantity: the quantity is set, then the entries whose quantity
\* is not positive are filtered out
updateItemQuantity(cartItems, menuItemId, quantity) ==
  LET newCartItems == [i \in 1..Len(cartItems) |->
                         IF cartItems[i].menuItemId = menuItemId
                         THEN [cartItems[i] EXCEPT !.quantity = quantity]
                         ELSE cartItems[i]]
  IN SelectSeq(newCartItems, LAMBDA item : item.quantity > 0)

\* clearCart
clearCart(cartItems) == <<>>

\* The menu the register shows: the seeded items and two items created with
\* POST /api/menu-items, of 0.05 and 0.03 yen
CreatedMenuItems == <<MenuItem(5, "alcohol"), MenuItem(3, "soft")>>

RegisterMenu ==
  createMenuItem(createMenuItem(NewMemStorage, CreatedMenuItems[1]),
                 CreatedMenuItems[2]).menuItems

\* A calculateSubtotal that takes 600 off per unit of category "soft".
calculateSubtotal_discount600(cartItems) ==
  LET all == [i \in 1..Len(cartItems) |-> TRUE]
      soft == [i \in 1..Len(cartItems) |->
                 RegisterMenu[cartItems[i].menuItemId].category = "soft"]
  IN Max(0, TierPrice(SumQuantity(cartItems, all))
            - SumQuantity(cartItems, soft) * 60000)

\* A calculateSubtotal that takes nothing off.
calculateSubtotal_noDiscount(cartItems) ==
  TierPrice(SumQuantity(cartItems, [i \in 1..Len(cartItems) |-> TRUE]))

\* calculateSubtotal of the store that numbers orders by count: the tiers on
\* all the units of the cart, less 200 per unit of category "soft"
calculateSubtotal(cartItems) ==
  LET all == [i \in 1..Len(cartItems) |-> TRUE]
      soft == [i \in 1..Len(cartItems) |->
                 RegisterMenu[cartItems[i].menuItemId].category = "soft"]
      totalDrinks == SumQuantity(cartItems, all)
      softDrinks == SumQuantity(cartItems, soft)
      discount == softDrinks * 20000
  IN Max(0, TierPrice(totalDrinks) - discount)

\* calculateTax: the tax is ignored
calculateTax(cartItems) == 0

\* calculateTotal: the subtotal
calculateTotal(cartItems) == calculateSubtotal(cartItems)

\* A flat-rate calculateSubtotal that charges 700 for each drink.
calculateSubtotalFlatRate_each(cartItems) ==
  SumQuantity(cartItems, [i \in 1..Len(cartItems) |-> TRUE]) * 70000

\* calculateSubtotal of the flat-rate store: the tiers on all the units
calculateSubtotalFlatRate(cartItems) ==
  LET totalDrinks == SumQuantity(cartItems, [i \in 1..Len(cartItems) |-> TRUE])
      fullSets == totalDrinks \div 3
      remainder == totalDrinks % 3
  IN fullSets * 150000
     + (IF remainder = 1 THEN 70000 ELSE IF remainder = 2 THEN 120000 ELSE 0)

\* calculateTax and calculateTotal of the flat-rate store
calculateTaxFlatRate(cartItems) == 0
calculateTotalFlatRate(cartItems) == calculateSubtotalFlatRate(cartItems)

\* A per-category calculateSubtotal that prices all the units in one pool.
calculateSubtotalPerCategory_pooled(cartItems) ==
  calculateSubtotal(cartItems)

\* calculateSubtotal of the per-category store: the units of category
\* "alcohol" and those of category "soft" are counted and priced apart
calculateSubtotalPerCategory(cartItems) ==
  LET alcohol == [i \in 1..Len(cartItems) |->
                    RegisterMenu[cartItems[i].menuItemId].category = "alcohol"]
      soft == [i \in 1..Len(cartItems) |->
                 RegisterMenu[cartItems[i].menuItemId].category = "soft"]
      alcoholDrinks == SumQuantity(cartItems, alcohol)
      softDrinks == SumQuantity(cartItems, soft)
      alcoholFullSets == alcoholDrinks \div 3
      alcoholRemainder == alcoholDrinks % 3
      softDrinkFullSets == softDrinks \div 3
      softDrinkRemainder == softDrinks % 3
  IN alcoholFullSets * 150000
     + (IF alcoholRemainder = 1 THEN 70000
        ELSE IF alcoholRemainder = 2 THEN 120000 ELSE 0)
     + softDrinkFullSets * 90000
     + (IF softDrinkRemainder = 1 THEN 50000
        ELSE IF softDrinkRemainder = 2 THEN 80000 ELSE 0)

\* calculateSubtotal of the literal store: the sum of price x quantity
RECURSIVE calculateSubtotalLiteral(_)
calculateSubtotalLiteral(cartItems) ==
  IF cartItems = <<>> THEN 0
  ELSE RegisterMenu[cartItems[1].menuItemId].price * cartItems[1].quantity
       + calculateSubtotalLiteral(Tail(cartItems))

\* Math.round(x * 0.1) for an integer x >= 0: the integer nearest to x / 10,
\* the one above when x / 10 lies halfway.  (The double x * 0.1 is not below
\* x / 10, and not far enough above it to reach the next half.)
MathRoundTenth(x) == (x \div 10) + (IF x % 10 >= 5 THEN 1 ELSE 0)

\* A calculateTax that drops the fraction.
calculateTaxLiteral_truncate(cartItems) ==
  calculateSubtotalLiteral(cartItems) \div 10

\* calculateTax of the literal store: 10% of the subtotal, rounded
calculateTaxLiteral(cartItems) ==
  MathRoundTenth(calculateSubtotalLiteral(cartItems))

\* calculateTotal of the literal store
calculateTotalLiteral(cartItems) ==
  calculateSubtotalLiteral(cartItems) + calculateTaxLiteral(cartItems)

\* The body createOrder posts: the number is the count of orders it fetched
\* plus one, the total is computed from the cart as it is now, the items are
\* the cart as it was when createOrder was called, each with price 0
OrderDataOf(count, cartNow, cartAtCall) ==
  [fields |-> {"orderNumber", "totalAmount"},
   orderNumber |-> OrderNumberString(count + 1),
   totalAmount |-> calculateTotal(cartNow),
   status |-> "none",
   items |-> [i \in 1..Len(cartAtCall) |->
                Line(cartAtCall[i].menuItemId, cartAtCall[i].quantity)]]

\* GET /api/orders as createOrder uses it: the number of orders
GetOrdersLength(st) == Cardinality(DOMAIN st.orders)

-----------------------------------------------------------------------------
(* Route handlers in flight.  An async function runs until it awaits and    *)
(* other handlers may run before it resumes.  A handler here is suspended   *)
(* at an await of PATCH /api/orders/:id or GET /api/orders/:id?withItems;   *)
(* the awaits of the menu item lookups, which read the catalog only, are    *)
(* not kept apart from the step that follows them.                          *)

Handlers == 1..MaxInFlight

NoOrder == [found |-> FALSE, orderNumber |-> EmptyString, status |-> "none",
            totalAmount |-> 0]

\* getOrderById: the order record, or undefined (found = FALSE)
getOrderById(st, id) ==
  IF id \in DOMAIN st.orders
  THEN [found |-> TRUE, orderNumber |-> st.orders[id].orderNumber,
        status |-> st.orders[id].status,
        totalAmount |-> st.orders[id].totalAmount]
  ELSE NoOrder

\* The order record as the orders map holds it
RecordOf(order) ==
  [orderNumber |-> order.orderNumber, totalAmount |-> order.totalAmount,
   status |-> order.status]

IdleHandler == [kind |-> "idle", pc |-> "idle", id |-> 0, req |-> NoBody,
                order |-> NoOrder, i |-> 0, rows |-> <<>>]

\* Order items that the edits in flight have yet to create
RECURSIVE RowsToCome(_, _)
RowsToCome(ps, p) ==
  IF p = 0 THEN 0
  ELSE (IF ps[p].kind = "edit" /\ ps[p].pc \in {"lookedUp", "recreating"}
        THEN Len(ps[p].req.items) - ps[p].i ELSE 0)
       + RowsToCome(ps, p - 1)

-----------------------------------------------------------------------------
(* Specification Spec: requests of any HTTP client, one handler at a time   *)

\* No exchange yet
NoExchange == [op |-> "none", id |-> 0, code |-> 0, items |-> <<>>,
               body |-> NotFound]

Init ==
  /\ store = NewMemStorage
  /\ resp = NoExchange
  /\ clients = [c \in Clients |-> IdleClient]
  /\ procs = [p \in Handlers |-> IdleHandler]

\* The exchange of a handler's reply r; it keeps the item list of a request
\* that was accepted and the order-with-items sent back
Exchange(op, id, req, r) ==
  [op |-> op, id |-> id, code |-> r.code,
   items |-> IF r.code \in {200, 201} THEN req.items ELSE <<>>,
   body |-> r.body]

\* No more than MaxItemId order item ids are handed out
WithinItemIds(st) == st.orderItemIdCounter <= MaxItemId + 1

PostOrderRequest ==
  \E body \in CreateBodies :
    \E r \in {PostOrder(store, body)} :
       /\ store.orderIdCounter <= MaxOrders
       /\ WithinItemIds(r.store)
       /\ store' = r.store
       /\ resp' = Exchange("create", store.orderIdCounter, body, r)
       /\ UNCHANGED <<clients, procs>>

PatchOrderStatusRequest ==
  \E id \in RequestOrderIds, body \in StatusBodies :
    \E r \in {PatchOrderStatus(store, id, body.status)} :
       /\ store' = r.store
       /\ resp' = Exchange("status", id, body, r)
       /\ UNCHANGED <<clients, procs>>

PatchOrderRequest ==
  \E id \in RequestOrderIds, body \in EditBodies :
    \E r \in {PatchOrder(store, id, body)} :
       /\ WithinItemIds(r.store)
       /\ store' = r.store
       /\ resp' = Exchange("edit", id, body, r)
       /\ UNCHANGED <<clients, procs>>

DeleteOrderRequest ==
  \E id \in RequestOrderIds :
    \E r \in {DeleteOrder(store, id)} :
       /\ store' = r.store
       /\ resp' = Exchange("delete", id, NoBody, r)
       /\ UNCHANGED <<clients, procs>>

Next ==
  \/ PostOrderRequest
  \/ PatchOrderStatusRequest
  \/ PatchOrderRequest
  \/ DeleteOrderRequest

Spec == Init /\ [][Next]_vars

-----------------------------------------------------------------------------
(* Properties of the routes *)

\* The price of an item list under pooled-with-discount pricing as the
\* specification of the pricing engine states it: the flat-rate tiers on the
\* pooled count, less 200 per unit of a soft drink, floored at zero.
RECURSIVE Units(_, _)
Units(lines, ids) ==
  IF lines = <<>> THEN 0
  ELSE (IF lines[1].menuItemId \in ids THEN lines[1].quantity ELSE 0)
       + Units(Tail(lines), ids)

SoftDrinkIds == {m \in DOMAIN RegisterMenu : RegisterMenu[m].category = "soft"}

PooledDiscountPrice(lines) ==
  LET n == Units(lines, {l.menuItemId : l \in {lines[i] : i \in 1..Len(lines)}})
      s == Units(lines, SoftDrinkIds)
      flat == 150000 * (n \div 3)
              + (CASE n % 3 = 0 -> 0 [] n % 3 = 1 -> 70000 [] n % 3 = 2 -> 120000)
  IN Max(0, flat - 20000 * s)

\* The stored order id holds exactly the lines of the item list: as many
\* order items, with the same menu item ids and quantities
HoldsExactly(st, id, lines) ==
  LET o == getOrderWithItems(st, id)
  IN /\ o.found
     /\ Len(o.items) = Len(lines)
     /\ \A i \in 1..Len(lines) :
          /\ o.items[i].menuItemId = lines[i].menuItemId
          /\ o.items[i].quantity = lines[i].quantity

\* C1: after an edit of an order to item list B was accepted, reading the
\* order returns exactly B, with no row of the earlier item list, and a
\* totalAmount that is the pooled-with-discount price of B; the edit's own
\* response is that order.
EditRoundTrip ==
  (resp.op = "edit" /\ resp.code = 200) =>
    /\ HoldsExactly(store, resp.id, resp.items)
    /\ GetOrder(store, resp.id).body.totalAmount = PooledDiscountPrice(resp.items)
    /\ resp.body = GetOrder(store, resp.id).body

\* C1 witness: an accepted edit to a non-empty B whose price is not the
\* total the order was created with, after order items were deleted.
EditRoundTripWitness ==
  /\ resp.op = "edit" /\ resp.code = 200
  /\ resp.items # <<>>
  /\ PooledDiscountPrice(resp.items) # 70000
  /\ 1 \notin DOMAIN store.orderItems
  /\ store.orderItemIdCounter > Len(resp.items) + 1

\* C2: the totalAmount stored by an accepted create of a non-empty list of
\* positive lines is the price the server computes for the lines.
ServerAssignedTotal ==
  (resp.op = "create" /\ resp.code = 201 /\ resp.items \in PositiveLists
     /\ resp.items # <<>>) =>
    store.orders[resp.id].totalAmount = ComputeTotalAmount(store, resp.items)

\* C5: an edit addressed to an order whose stored status is ready is
\* rejected and leaves the store as it was.
ReadyOrderEditRejected ==
  [][(resp'.op = "edit" /\ resp'.id \in DOMAIN store.orders
        /\ store.orders[resp'.id].status = "ready")
       => (resp'.code # 200 /\ store' = store)]_vars

\* C6: once the stored status of an order is ready it stays ready as long
\* as the order exists.
ForwardOnlyStatus ==
  [][\A id \in DOMAIN store.orders \cap DOMAIN store'.orders :
       store.orders[id].status = "ready" => store'.orders[id].status = "ready"]_vars

\* C7: a create answered with the validation error 400 persists no order
\* and no order item.
CreateFailsClosed ==
  [][(resp'.op = "create" /\ resp'.code = 400)
       => (store'.orders = store.orders /\ store'.orderItems = store.orderItems)]_vars

\* C8: no edit with an empty item list or a line of quantity <= 0 is
\* accepted, and an edit answered with 400 leaves the store as it was.
EditValidation ==
  [][resp'.op = "edit" =>
       /\ resp'.code = 200 =>
            /\ resp'.items # <<>>
            /\ \A i \in 1..Len(resp'.items) : resp'.items[i].quantity > 0
       /\ resp'.code = 400 => store' = store]_vars

\* C9: no stored order item references a menu item id that is not in the
\* catalog (a line that names one is reported as not-found).
NoUnknownMenuItemStored ==
  \A k \in DOMAIN store.orderItems :
    store.orderItems[k].menuItemId \in DOMAIN store.menuItems

\* Orders that were created and are no longer in the store
DeletedOrderIds == (1..(store.orderIdCounter - 1)) \ DOMAIN store.orders

\* C10: once an order is deleted no order item of it is in the store and
\* GET of its id is answered 404, whatever creates and edits came before
\* and whatever requests follow.
CascadeDelete ==
  \A id \in DeletedOrderIds :
    /\ getOrderItemsByOrderId(store, id) = <<>>
    /\ GetOrder(store, id).code = 404

\* C10 witness: a delete was answered 204 after order items were created.
CascadeDeleteWitness ==
  /\ resp.op = "delete" /\ resp.code = 204
  /\ resp.id \in DeletedOrderIds
  /\ store.orderItemIdCounter > 1

\* C13: a create never persists an order with an empty item set: whenever
\* a create adds an order to the store, the order has at least one item.
NoEmptyOrderCreated ==
  [][(resp'.op = "create" /\ resp'.id \in DOMAIN store'.orders \ DOMAIN store.orders)
       => getOrderItemsByOrderId(store', resp'.id) # <<>>]_vars

\* C21: every order item in the store has a positive quantity, whatever
\* creates and edits were handled: no line of quantity <= 0 is stored.
PositiveQuantities ==
  \A k \in DOMAIN store.orderItems : store.orderItems[k].quantity > 0

-----------------------------------------------------------------------------
(* Specification SpecClient: register clients fill their carts and call    *)
(* createOrder; the server runs one handler at a time                      *)

\* The sum of the clients' calls of createOrder so far
RECURSIVE Checkouts(_)
Checkouts(c) == IF c = 0 THEN 0 ELSE clients[c].checkouts + Checkouts(c - 1)

\* A click on a menu item.  addItemToCart adds 1 to the quantity of the
\* entry object it finds, and the array createOrder read when it was called
\* holds the same objects: the entries of the cart at the call are the first
\* entries of the cart, so the snapshot sees the new quantity too.
AddItemToCart(c) ==
  \E m \in RequestMenuIds :
    LET cart == addItemToCart(clients[c].cartItems, m)
        k == FindIndex(clients[c].cartItems, m)
        snapshot == clients[c].snapshot
    IN /\ \A i \in 1..Len(cart) : cart[i].quantity <= MaxQty
       /\ clients' = [clients EXCEPT
                        ![c].cartItems = cart,
                        ![c].snapshot =
                          IF k > 0 /\ k <= Len(snapshot)
                          THEN [snapshot EXCEPT ![k].quantity = @ + 1]
                          ELSE snapshot]
       /\ UNCHANGED <<store, resp, procs>>

\* createOrder is called with a cart that is not empty: it reads cartItems
\* and sends GET /api/orders
CreateOrderCall(c) ==
  /\ clients[c].pc = "idle"
  /\ clients[c].cartItems # <<>>
  /\ Checkouts(MaxClients) < MaxCheckouts
  /\ clients' = [clients EXCEPT ![c].pc = "getting",
                                ![c].snapshot = clients[c].cartItems,
                                ![c].checkouts = @ + 1]
  /\ UNCHANGED <<store, resp, procs>>

\* The server answers the GET and createOrder builds the body of its POST
CreateOrderCount(c) ==
  /\ clients[c].pc = "getting"
  /\ clients' = [clients EXCEPT
                   ![c].pc = "posting",
                   ![c].body = OrderDataOf(GetOrdersLength(store),
                                           clients[c].cartItems,
                                           clients[c].snapshot)]
  /\ UNCHANGED <<store, resp, procs>>

\* The server handles the POST
CreateOrderPost(c) ==
  LET r == PostOrder(store, clients[c].body)
  IN /\ clients[c].pc = "posting"
     /\ store' = r.store
     /\ resp' = Exchange("create", store.orderIdCounter, clients[c].body, r)
     /\ clients' = [clients EXCEPT ![c].pc = "posted"]
     /\ UNCHANGED procs

\* createOrder receives the new order, clears the cart and returns
CreateOrderReturn(c) ==
  /\ clients[c].pc = "posted"
  /\ clients' = [clients EXCEPT ![c].pc = "idle", ![c].cartItems = <<>>,
                                ![c].snapshot = <<>>, ![c].body = NoBody]
  /\ UNCHANGED <<store, resp, procs>>

NextClient ==
  \E c \in Clients :
    \/ AddItemToCart(c)
    \/ CreateOrderCall(c)
    \/ CreateOrderCount(c)
    \/ CreateOrderPost(c)
    \/ CreateOrderReturn(c)

SpecClient == Init /\ [][NextClient]_vars

\* C3: the orders that createOrder calls produce, concurrent or not, carry
\* pairwise different order numbers.
UniqueOrderNumbers ==
  \A i, j \in DOMAIN store.orders :
    i # j => store.orders[i].orderNumber # store.orders[j].orderNumber

-----------------------------------------------------------------------------
(* Specification SpecAsync: edits and reads of a stored order whose         *)
(* handlers interleave at their awaits.  The order was created by a         *)
(* register client from a cart that was not empty, and every edit carries   *)
(* a list of positive lines of the catalog that is not empty.               *)

\* The bodies a register client posts for its carts
CartBodies ==
  {[fields |-> {"orderNumber", "totalAmount"},
    orderNumber |-> OrderNumberString(1),
    totalAmount |-> calculateTotal(l),
    status |-> "none",
    items |-> l] : l \in PositiveLists \ {<<>>}}

\* The bodies the edit dialog sends for an order in progress
DialogBodies ==
  {b \in EditBodies : b.status = "in-progress" /\ b.items \in PositiveLists \ {<<>>}}

\* The ids in the URLs: the ids an order can have and one past them
HandledOrderIds == 1..(MaxOrders + 1)

InitAsync ==
  /\ \E body \in CartBodies :
       /\ store = PostOrder(NewMemStorage, body).store
       /\ resp = Exchange("create", 1, body, PostOrder(NewMemStorage, body))
       /\ WithinItemIds(store)
  /\ clients = [c \in Clients |-> IdleClient]
  /\ procs = [p \in Handlers |-> IdleHandler]

\* PATCH /api/orders/:id arrives: the body is parsed and updateOrderWithItems
\* runs up to its await of getOrderById
EditArrives(p) ==
  \E id \in HandledOrderIds, body \in DialogBodies :
    /\ procs[p].kind = "idle"
    /\ store.orderItemIdCounter + RowsToCome(procs, MaxInFlight)
         + Len(body.items) <= MaxItemId + MaxInFlight
    /\ procs' = [procs EXCEPT ![p] =
                   [IdleHandler EXCEPT !.kind = "edit", !.pc = "lookedUp",
                                       !.id = id, !.req = body,
                                       !.order = getOrderById(store, id)]]
    /\ UNCHANGED <<store, resp, clients>>

\* updateOrderWithItems found no order: undefined, and the route answers 404
EditNotFound(p) ==
  /\ procs[p].kind = "edit" /\ procs[p].pc = "lookedUp"
  /\ ~procs[p].order.found
  /\ resp' = Exchange("edit", procs[p].id, procs[p].req,
                      Reply(store, 404, NotFound))
  /\ procs' = [procs EXCEPT ![p] = IdleHandler]
  /\ UNCHANGED <<store, clients>>

\* The total is computed, the order is set and deleteOrderItemsByOrderId is
\* called, up to its await
EditSetsOrder(p) ==
  /\ procs[p].kind = "edit" /\ procs[p].pc = "lookedUp"
  /\ procs[p].order.found
  /\ store' = SetOrderAndDeleteItems(
                store, procs[p].id, RecordOf(procs[p].order),
                [orderNumber |-> procs[p].req.orderNumber,
                 status |-> procs[p].req.status],
                ComputeTotalAmount(store, procs[p].req.items))
  /\ procs' = [procs EXCEPT ![p].pc = "recreating"]
  /\ UNCHANGED <<resp, clients>>

\* One turn of the loop: createOrderItem is called, up to its await
EditCreatesItem(p) ==
  /\ procs[p].kind = "edit" /\ procs[p].pc = "recreating"
  /\ procs[p].i < Len(procs[p].req.items)
  /\ store' = CreateEditedItem(store, procs[p].id,
                               procs[p].req.items[procs[p].i + 1])
  /\ procs' = [procs EXCEPT ![p].i = @ + 1]
  /\ UNCHANGED <<resp, clients>>

\* After the loop getOrderWithItems is called and runs up to its await of
\* getOrderById
EditReadsOrder(p) ==
  /\ procs[p].kind = "edit" /\ procs[p].pc = "recreating"
  /\ procs[p].i = Len(procs[p].req.items)
  /\ procs' = [procs EXCEPT ![p].pc = "readOrder",
                            ![p].order = getOrderById(store, procs[p].id)]
  /\ UNCHANGED <<store, resp, clients>>

\* GET /api/orders/:id?withItems=true arrives: getOrderWithItems runs up to
\* its await of getOrderById
GetArrives(p) ==
  \E id \in HandledOrderIds :
    /\ procs[p].kind = "idle"
    /\ procs' = [procs EXCEPT ![p] =
                   [IdleHandler EXCEPT !.kind = "get", !.pc = "readOrder",
                                       !.id = id,
                                       !.order = getOrderById(store, id)]]
    /\ UNCHANGED <<store, resp, clients>>

\* getOrderWithItems found no order: undefined, and the route answers 404
ReadNotFound(p) ==
  /\ procs[p].pc = "readOrder"
  /\ ~procs[p].order.found
  /\ resp' = Exchange(procs[p].kind, procs[p].id, procs[p].req,
                      Reply(store, 404, NotFound))
  /\ procs' = [procs EXCEPT ![p] = IdleHandler]
  /\ UNCHANGED <<store, clients>>

\* getOrderWithItems calls getOrderItemsByOrderId, up to its await
ReadItems(p) ==
  /\ procs[p].pc = "readOrder"
  /\ procs[p].order.found
  /\ procs' = [procs EXCEPT
                 ![p].pc = "readItems",
                 ![p].rows = JoinItems(store,
                               getOrderItemsByOrderId(store, procs[p].id))]
  /\ UNCHANGED <<store, resp, clients>>

\* getOrderWithItems returns the order it read with the items it read, and
\* the route answers 200
ReadReturns(p) ==
  /\ procs[p].pc = "readItems"
  /\ resp' = Exchange(procs[p].kind, procs[p].id, procs[p].req,
                Reply(store, 200,
                      [found |-> TRUE,
                       orderNumber |-> procs[p].order.orderNumber,
                       status |-> procs[p].order.status,
                       totalAmount |-> procs[p].order.totalAmount,
                       items |-> procs[p].rows]))
  /\ procs' = [procs EXCEPT ![p] = IdleHandler]
  /\ UNCHANGED <<store, clients>>

\* DELETE /api/orders/:id arrives: deleteOrderItemsByOrderId runs, and the
\* route awaits it
DeleteArrives(p) ==
  \E id \in HandledOrderIds :
    /\ procs[p].kind = "idle"
    /\ store' = deleteOrderItemsByOrderId(store, id)
    /\ procs' = [procs EXCEPT ![p] =
                   [IdleHandler EXCEPT !.kind = "delete", !.pc = "itemsDeleted",
                                       !.id = id]]
    /\ UNCHANGED <<resp, clients>>

\* deleteOrder runs and tells whether there was an order; the route
\* answers 204 or 404
DeleteDeletesOrder(p) ==
  /\ procs[p].kind = "delete" /\ procs[p].pc = "itemsDeleted"
  /\ store' = deleteOrder(store, procs[p].id)
  /\ resp' = Exchange("delete", procs[p].id, NoBody,
                      Reply(store', IF procs[p].id \in DOMAIN store.orders
                                    THEN 204 ELSE 404, NotFound))
  /\ procs' = [procs EXCEPT ![p] = IdleHandler]
  /\ UNCHANGED clients

NextAsync ==
  \E p \in Handlers :
    \/ DeleteArrives(p)
    \/ DeleteDeletesOrder(p)
    \/ EditArrives(p)
    \/ EditNotFound(p)
    \/ EditSetsOrder(p)
    \/ EditCreatesItem(p)
    \/ EditReadsOrder(p)
    \/ GetArrives(p)
    \/ ReadNotFound(p)
    \/ ReadItems(p)
    \/ ReadReturns(p)

SpecAsync == InitAsync /\ [][NextAsync]_vars

\* C4: the answer of a GET of an order holds a whole item list, the one the
\* order was created with or the one of an edit, with the total of that
\* list: it is not empty and its total is the price of its items.
ReadSeesWholeOrder ==
  (resp.op = "get" /\ resp.code = 200) =>
    /\ resp.body.items # <<>>
    /\ resp.body.totalAmount = PooledDiscountPrice(resp.body.items)

\* A handler is between its first write to the store and its last
HandlerWriting(p) ==
  \/ procs[p].kind = "edit" /\ procs[p].pc \in {"lookedUp", "recreating"}
  \/ procs[p].kind = "delete"

\* The stored order items of order id as the lines of a request
StoredLines(st, id) ==
  LET items == getOrderWithItems(st, id).items
  IN [i \in 1..Len(items) |-> Line(items[i].menuItemId, items[i].quantity)]

\* C25: once the edits of an order have done their writes, concurrent or
\* not, the order holds the item list of one of them (a list of the dialog,
\* with one line per menu item), not lines of two, and its totalAmount is
\* the price of that list.
LastWriteWins ==
  (\A p \in Handlers : ~HandlerWriting(p)) =>
    \A id \in DOMAIN store.orders :
      /\ StoredLines(store, id) \in PositiveLists
      /\ store.orders[id].totalAmount
           = PooledDiscountPrice(StoredLines(store, id))

\* C26: every order item in the store belongs to an order that is in the
\* store, whatever creates, edits and deletes were handled and however
\* their handlers interleaved.
NoOrphanItems ==
  \A k \in DOMAIN store.orderItems :
    store.orderItems[k].orderId \in DOMAIN store.orders

-----------------------------------------------------------------------------
(* Specification SpecNumbers: the order numbers.  Orders of one drink are   *)
(* created by a register client, whose createOrder runs with no other       *)
(* request between its GET and its POST, or by a POST that carries an       *)
(* order number of its own or the empty one; orders are edited from the     *)
(* dialog, which sends the order's number and status back, and deleted.     *)
(* Here resp also carries the order number of the request and the numbers   *)
(* the creates have given to orders so far, oldest first.                   *)

\* A cart of one drink
OneDrinkCart == <<[menuItemId |-> 1, quantity |-> 1]>>

\* Order numbers a POST may carry: the empty string, "#1" and "#2"
NumberedOrderNumbers == RequestOrderNumbers \cup {OrderNumberString(2)}

\* The exchange with the number of the request and the numbers given so far
NumberedExchange(op, id, req, r, assigned) ==
  [op |-> op, id |-> id, code |-> r.code, items |-> <<>>, body |-> r.body,
   number |-> req.orderNumber, assigned |-> assigned]

InitNumbers ==
  /\ store = NewMemStorage
  /\ resp = NumberedExchange("none", 0, NoBody, Reply(store, 0, NotFound), <<>>)
  /\ clients = [c \in Clients |-> IdleClient]
  /\ procs = [p \in Handlers |-> IdleHandler]

\* No more than MaxNumbered orders and MaxNumbered + 1 order items
WithinNumbered(st) ==
  /\ st.orderIdCounter <= MaxNumbered + 1
  /\ st.orderItemIdCounter <= MaxNumbered + 2

\* POST /api/orders with body: the store afterwards and the exchange, with
\* the number the order was given
CreateNumbered(body) ==
  LET r == PostOrder(store, body)
  IN [store |-> r.store,
      resp |-> NumberedExchange(
                 "create", store.orderIdCounter, body, r,
                 IF r.code = 201 THEN Append(resp.assigned, r.body.orderNumber)
                 ELSE resp.assigned)]

\* createOrder of a register client: GET /api/orders, then the POST
RegisterCreatesOrder ==
  LET created == CreateNumbered(OrderDataOf(GetOrdersLength(store),
                                            OneDrinkCart, OneDrinkCart))
  IN /\ WithinNumbered(created.store)
     /\ store' = created.store
     /\ resp' = created.resp
     /\ UNCHANGED <<clients, procs>>

\* POST /api/orders of another HTTP client
PostNumberedOrder ==
  \E n \in NumberedOrderNumbers :
    LET created == CreateNumbered([OrderDataOf(0, OneDrinkCart, OneDrinkCart)
                                     EXCEPT !.orderNumber = n])
    IN /\ WithinNumbered(created.store)
       /\ store' = created.store
       /\ resp' = created.resp
       /\ UNCHANGED <<clients, procs>>

\* The edit dialog saves an order with the number and status it shows
EditNumberedOrder ==
  \E id \in DOMAIN store.orders :
    LET body == [fields |-> {"orderNumber", "status", "items"},
                 orderNumber |-> store.orders[id].orderNumber,
                 totalAmount |-> 0,
                 status |-> store.orders[id].status,
                 items |-> <<Line(7, 1)>>]
        r == PatchOrder(store, id, body)
    IN /\ WithinNumbered(r.store)
       /\ store' = r.store
       /\ resp' = NumberedExchange("edit", id, body, r, resp.assigned)
       /\ UNCHANGED <<clients, procs>>

\* DELETE /api/orders/:id
DeleteNumberedOrder ==
  \E id \in 1..MaxNumbered :
    LET r == DeleteOrder(store, id)
    IN /\ store' = r.store
       /\ resp' = NumberedExchange("delete", id, NoBody, r, resp.assigned)
       /\ UNCHANGED <<clients, procs>>

NextNumbers ==
  \/ RegisterCreatesOrder
  \/ PostNumberedOrder
  \/ EditNumberedOrder
  \/ DeleteNumberedOrder

SpecNumbers == InitNumbers /\ [][NextNumbers]_vars

\* C11: a create whose order number is the number of an order in the store
\* is not accepted and persists no order and no order item.
DuplicateNumberRejected ==
  [][(/\ resp'.op = "create"
      /\ resp'.number # EmptyString
      /\ \E id \in DOMAIN store.orders :
           store.orders[id].orderNumber = resp'.number)
       => (/\ resp'.code # 201
           /\ store'.orders = store.orders
           /\ store'.orderItems = store.orderItems)]_vars

\* C12: no two orders in the store have the same order number, and no
\* number is given to an order twice, whether the order that had it is
\* still in the store or was deleted.
OrderNumberInvariant ==
  /\ \A i, j \in DOMAIN store.orders :
       i # j => store.orders[i].orderNumber # store.orders[j].orderNumber
  /\ \A i, j \in 1..Len(resp.assigned) :
       i # j => resp.assigned[i] # resp.assigned[j]

-----------------------------------------------------------------------------
(* Specification SpecCart: the cart of one register.  The server holds the  *)
(* menu the register shows.  After each change of the cart the order        *)
(* summary is drawn again: resp holds the operation, the menu item id and   *)
(* the quantity it was called with, and as its body the subtotal, tax and   *)
(* total that each revision of the store computes for the new cart.         *)

\* The register whose cart is followed
TheRegister == CHOOSE c \in Clients : TRUE

\* Menu items the clicks name: the alcoholic drink and the soft drink of the
\* requests, and the two created items
CartMenuIds == RequestMenuIds \cup (DOMAIN RegisterMenu \ DOMAIN SeedMenuItems)

\* Quantities updateItemQuantity is called with
CartQuantities == (0 - 1)..MaxCartQty

\* What OrderSummary shows: calculateSubtotal(), calculateTax() and
\* calculateTotal() of the flat-rate, pooled-with-discount, per-category and
\* literal revisions of the store
Summary(cartItems) ==
  [flat |-> [subtotal |-> calculateSubtotalFlatRate(cartItems),
             tax |-> calculateTaxFlatRate(cartItems),
             total |-> calculateTotalFlatRate(cartItems)],
   pooled |-> [subtotal |-> calculateSubtotal(cartItems),
               tax |-> calculateTax(cartItems),
               total |-> calculateTotal(cartItems)],
   split |-> [subtotal |-> calculateSubtotalPerCategory(cartItems),
              tax |-> 0,
              total |-> calculateSubtotalPerCategory(cartItems)],
   literal |-> [subtotal |-> calculateSubtotalLiteral(cartItems),
                tax |-> calculateTaxLiteral(cartItems),
                total |-> calculateTotalLiteral(cartItems)]]

CartExchange(op, menuItemId, quantity, cartItems) ==
  [op |-> op, id |-> menuItemId, code |-> quantity, items |-> <<>>,
   body |-> Summary(cartItems)]

InitCart ==
  /\ store = createMenuItem(createMenuItem(NewMemStorage, CreatedMenuItems[1]),
                            CreatedMenuItems[2])
  /\ resp = CartExchange("none", 0, 0, <<>>)
  /\ clients = [c \in Clients |-> IdleClient]
  /\ procs = [p \in Handlers |-> IdleHandler]

\* A click on a menu item
CartAdd(c) ==
  \E m \in CartMenuIds :
    LET cart == addItemToCart(clients[c].cartItems, m)
    IN /\ \A i \in 1..Len(cart) : cart[i].quantity <= MaxCartQty
       /\ clients' = [clients EXCEPT ![c].cartItems = cart]
       /\ resp' = CartExchange("add", m, 1, cart)
       /\ UNCHANGED <<store, procs>>

\* A call of removeItemFromCart, for an item in the cart or not
CartRemove(c) ==
  \E m \in CartMenuIds :
    LET cart == removeItemFromCart(clients[c].cartItems, m)
    IN /\ clients' = [clients EXCEPT ![c].cartItems = cart]
       /\ resp' = CartExchange("remove", m, 0, cart)
       /\ UNCHANGED <<store, procs>>

\* A call of updateItemQuantity, for an item in the cart or not
CartUpdate(c) ==
  \E m \in CartMenuIds, q \in CartQuantities :
    LET cart == updateItemQuantity(clients[c].cartItems, m, q)
    IN /\ clients' = [clients EXCEPT ![c].cartItems = cart]
       /\ resp' = CartExchange("update", m, q, cart)
       /\ UNCHANGED <<store, procs>>

\* A click on the reset button
CartClear(c) ==
  LET cart == clearCart(clients[c].cartItems)
  IN /\ clients' = [clients EXCEPT ![c].cartItems = cart]
     /\ resp' = CartExchange("clear", 0, 0, cart)
     /\ UNCHANGED <<store, procs>>

NextCart ==
  \/ CartAdd(TheRegister)
  \/ CartRemove(TheRegister)
  \/ CartUpdate(TheRegister)
  \/ CartClear(TheRegister)

SpecCart == InitCart /\ [][NextCart]_vars

\* The cart of the register, and the units in it
Cart == clients[TheRegister].cartItems
CartUnits == Units(Cart, CartMenuIds)
AlcoholIds == {m \in DOMAIN RegisterMenu : RegisterMenu[m].category = "alcohol"}

\* 1500 per three units and 0, 700 or 1200 for what is left (yen x 100)
FlatRate(n) ==
  150000 * (n \div 3)
  + (CASE n % 3 = 0 -> 0 [] n % 3 = 1 -> 70000 [] n % 3 = 2 -> 120000)

\* C14: under flat-rate tiering the subtotal of every cart is 1500 per
\* three units plus 0, 700 or 1200 for n mod 3 = 0, 1, 2 of the pooled count
\* n (0, 700, 1200, 1500, 2200 and 3000 for n = 0, 1, 2, 3, 4 and 6), the
\* tax is 0 and the total is the subtotal.
FlatRateTiering ==
  /\ resp.body.flat.subtotal = FlatRate(CartUnits)
  /\ CartUnits = 0 => resp.body.flat.subtotal = 0
  /\ CartUnits = 1 => resp.body.flat.subtotal = 70000
  /\ CartUnits = 2 => resp.body.flat.subtotal = 120000
  /\ CartUnits = 3 => resp.body.flat.subtotal = 150000
  /\ CartUnits = 4 => resp.body.flat.subtotal = 220000
  /\ CartUnits = 6 => resp.body.flat.subtotal = 300000
  /\ resp.body.flat.tax = 0
  /\ resp.body.flat.total = resp.body.flat.subtotal

\* C14 witness: the summary of a cart of six units, some alcoholic and some
\* soft, was drawn.
FlatRateTieringWitness ==
  /\ resp.op = "add"
  /\ CartUnits = 6
  /\ Units(Cart, SoftDrinkIds) > 0
  /\ Units(Cart, AlcoholIds) > 0

\* The lines an edit of an order to the cart would carry
CartLines == [i \in 1..Len(Cart) |-> Line(Cart[i].menuItemId, Cart[i].quantity)]

\* C15: under pooled-with-discount pricing the subtotal of every cart is
\* max(0, flat rate of all units - 200 per soft-drink unit), it is never
\* negative, and a cart of exactly one soft drink costs 500; the server
\* computes the same amount for the lines of the cart.
PooledDiscountPricing ==
  /\ resp.body.pooled.subtotal
       = Max(0, FlatRate(CartUnits) - 20000 * Units(Cart, SoftDrinkIds))
  /\ ComputeTotalAmount(store, CartLines)
       = Max(0, FlatRate(CartUnits) - 20000 * Units(Cart, SoftDrinkIds))
  /\ resp.body.pooled.subtotal >= 0
  /\ (CartUnits = 1 /\ Units(Cart, SoftDrinkIds) = 1)
       => resp.body.pooled.subtotal = 50000

\* C15 witness: the summary of a cart of exactly one soft drink was drawn.
PooledDiscountPricingWitness ==
  /\ resp.op \in {"add", "update", "remove"}
  /\ CartUnits = 1
  /\ Units(Cart, SoftDrinkIds) = 1

\* The tier tables of the per-category split
AlcoholTier(a) ==
  150000 * (a \div 3)
  + (CASE a % 3 = 0 -> 0 [] a % 3 = 1 -> 70000 [] a % 3 = 2 -> 120000)
SoftTier(n) ==
  90000 * (n \div 3)
  + (CASE n % 3 = 0 -> 0 [] n % 3 = 1 -> 50000 [] n % 3 = 2 -> 80000)

\* The entries of the cart whose menu item is in ids
CartOf(ids) == SelectSeq(Cart, LAMBDA item : item.menuItemId \in ids)

\* C16: under the per-category split the alcoholic units and the soft-drink
\* units are priced by their own tier tables and the subtotal is the sum: 3
\* alcoholic alone cost 1500, 3 soft alone cost 900, and the subtotal of a
\* mixed cart is that of its alcoholic entries plus that of its soft ones.
PerCategorySplit ==
  LET a == Units(Cart, AlcoholIds)
      n == Units(Cart, SoftDrinkIds)
  IN /\ resp.body.split.subtotal = AlcoholTier(a) + SoftTier(n)
     /\ (a = 3 /\ n = 0) => resp.body.split.subtotal = 150000
     /\ (a = 0 /\ n = 3) => resp.body.split.subtotal = 90000
     /\ resp.body.split.subtotal
          = calculateSubtotalPerCategory(CartOf(AlcoholIds))
            + calculateSubtotalPerCategory(CartOf(SoftDrinkIds))

\* C16 witness: the summary of a cart of three soft drinks alone was drawn,
\* and so was (in another state) that of a mixed cart.
PerCategorySplitWitness ==
  /\ resp.op = "add"
  /\ Units(Cart, AlcoholIds) = 0
  /\ Units(Cart, SoftDrinkIds) = 3

\* The subtotals of the three tiering modes for a cart
TierSubtotals(cartItems) ==
  <<calculateSubtotalFlatRate(cartItems),
    calculateSubtotalPerCategory(cartItems),
    calculateSubtotal(cartItems)>>

\* C17: under flat-rate, per-category and pooled-with-discount tiering the
\* subtotal of every cart is non-negative, and adding one more unit of any
\* menu item never decreases it.
PriceMonotone ==
  [][/\ \A k \in 1..3 : TierSubtotals(Cart')[k] >= 0
     /\ resp'.op = "add" =>
          \A k \in 1..3 : TierSubtotals(Cart')[k] >= TierSubtotals(Cart)[k]]_vars

\* C17 witness: a soft drink was added to a cart that now holds five units,
\* two or more of them soft.
PriceMonotoneWitness ==
  /\ resp.op = "add"
  /\ resp.id \in SoftDrinkIds
  /\ CartUnits = 5
  /\ Units(Cart, SoftDrinkIds) >= 2

\* The sum over the menu items in ids of unit price x units in the cart
RECURSIVE PriceOfUnits(_, _)
PriceOfUnits(cartItems, ids) ==
  IF ids = {} THEN 0
  ELSE LET m == CHOOSE x \in ids : TRUE
       IN RegisterMenu[m].price * Units(cartItems, {m})
          + PriceOfUnits(cartItems, ids \ {m})

\* C18: under literal pricing the subtotal is the sum of unit price x
\* quantity, the tax is floor((subtotal + 5) / 10), and the total is
\* subtotal + tax.
LiteralLinePricing ==
  /\ resp.body.literal.subtotal = PriceOfUnits(Cart, CartMenuIds)
  /\ resp.body.literal.tax = (resp.body.literal.subtotal + 5) \div 10
  /\ resp.body.literal.total
       = resp.body.literal.subtotal + resp.body.literal.tax

\* C18 witness: the summary of a cart whose subtotal x 0.10 lies halfway
\* between two integers was drawn.
LiteralLinePricingWitness ==
  /\ resp.op = "add"
  /\ resp.body.literal.subtotal % 10 = 5
  /\ Len(Cart) >= 2

\* At most one entry per menu item id, every quantity >= 1
CartOk(cartItems) ==
  /\ \A i, j \in 1..Len(cartItems) :
       i # j => cartItems[i].menuItemId # cartItems[j].menuItemId
  /\ \A i \in 1..Len(cartItems) : cartItems[i].quantity >= 1

\* C19: after every addItemToCart, removeItemFromCart, updateItemQuantity
\* and clearCart the cart holds at most one entry per menu item id and every
\* quantity is >= 1; addItemToCart adds exactly 1 to the quantity of the
\* entry of the id if there is one and appends an entry of quantity 1 if
\* there is none, leaving the other entries as they were.
CartInvariant ==
  [][/\ CartOk(Cart')
     /\ resp'.op = "add" =>
          LET k == FindIndex(Cart, resp'.id)
          IN IF k > 0
             THEN Cart' = [Cart EXCEPT ![k].quantity = Cart[k].quantity + 1]
             ELSE Cart' = Cart \o <<[menuItemId |-> resp'.id, quantity |-> 1]>>]_vars

\* C19 witness: updateItemQuantity was called with a quantity below 1 for an
\* item, and the cart still holds another item.
CartInvariantWitness ==
  /\ resp.op = "update"
  /\ resp.code < 1
  /\ FindIndex(Cart, resp.id) = 0
  /\ Len(Cart) >= 1

\* C20: from every cart, addItemToCart twice and then updateItemQuantity to
\* 0 for an item leave no entry of the item (the empty cart if the cart was
\* empty), and removeItemFromCart and updateItemQuantity for an item that is
\* not in the cart leave the cart as it was.
CartIdempotence ==
  [][/\ \A m \in CartMenuIds :
          LET twice == addItemToCart(addItemToCart(Cart, m), m)
              after == updateItemQuantity(twice, m, 0)
          IN /\ FindIndex(after, m) = 0
             /\ Cart = <<>> => after = <<>>
     /\ (resp'.op \in {"remove", "update"} /\ FindIndex(Cart, resp'.id) = 0)
          => Cart' = Cart]_vars

\* C20 witness: removeItemFromCart was called for an item that is not in a
\* cart that holds other items.
CartIdempotenceWitness ==
  /\ resp.op = "remove"
  /\ FindIndex(Cart, resp.id) = 0
  /\ Len(Cart) >= 2

-----------------------------------------------------------------------------
(* Specification SpecStore: the three collections of the store under the    *)
(* routes, one handler at a time.  Menu items are created, orders are       *)
(* created by register clients from their carts, edited from the dialog,    *)
(* moved to another status, deleted and read, under ids that are in the     *)
(* store or not.  Here resp also carries the ids the store has handed out   *)
(* in each collection so far, oldest first.                                 *)

\* Ids the URLs address: the ids an order can have and one past them
StoredOrderIds == 1..(MaxStored + 1)

NoneAssigned == [menuItems |-> <<>>, orders |-> <<>>, orderItems |-> <<>>]

\* The keys of a map after a handler that were not its keys before
NewKeys(before, after) == SortedKeys(DOMAIN after \ DOMAIN before)

\* The exchange of a handler's reply r.  bodyOk says that the request is one
\* the route does not answer with 400; created are the ids of the order
\* items the handler created.
StoreExchange(op, id, req, r, created) ==
  [op |-> op, id |-> id, code |-> r.code, items |-> <<>>, body |-> r.body,
   bodyOk |-> \/ (op = "status" /\ req.status \in Statuses)
              \/ (op = "edit" /\ UpdateOrderSchemaOk(req))
              \/ op \in {"get", "getWithItems", "delete"},
   assigned |->
     [menuItems |-> resp.assigned.menuItems
                    \o NewKeys(store.menuItems, r.store.menuItems),
      orders |-> resp.assigned.orders \o NewKeys(store.orders, r.store.orders),
      orderItems |-> resp.assigned.orderItems \o created]]

InitStore ==
  /\ store = NewMemStorage
  /\ resp = [op |-> "none", id |-> 0, code |-> 0, items |-> <<>>,
             body |-> NotFound, bodyOk |-> FALSE, assigned |-> NoneAssigned]
  /\ clients = [c \in Clients |-> IdleClient]
  /\ procs = [p \in Handlers |-> IdleHandler]

\* No more than MaxStored orders and MaxStored + 1 order items are created
WithinStored(st) ==
  /\ st.orderIdCounter <= MaxStored + 1
  /\ st.orderItemIdCounter <= MaxStored + 2

\* The item lists of the carts and of the dialog: one drink, or two
StoredLists == {<<Line(1, 1)>>, <<Line(1, 1), Line(7, 1)>>}

\* The bodies a register client posts and the bodies the dialog sends for
\* these lists, and a body the edit route rejects
StoredCartBodies == {b \in CartBodies : b.items \in StoredLists}
StoredDialogBodies == {b \in DialogBodies : b.items \in StoredLists} \cup {NoBody}

\* The bodies of a status update: to ready, and one the route rejects
StoredStatusBodies == {b \in StatusBodies : b.status \in {"ready", "bogus"}}

\* The menu items of CreatedMenuItems are created one after the other
StoreMenuItem ==
  /\ store.menuItemIdCounter
       < NewMemStorage.menuItemIdCounter + Len(CreatedMenuItems)
  /\ \E r \in {PostMenuItem(store,
                  CreatedMenuItems[store.menuItemIdCounter
                                     - NewMemStorage.menuItemIdCounter + 1])} :
       /\ store' = r.store
       /\ resp' = StoreExchange("menu", store.menuItemIdCounter, NoBody, r, <<>>)
       /\ UNCHANGED <<clients, procs>>

StoreCreate ==
  \E body \in StoredCartBodies :
    \E r \in {PostOrder(store, body)} :
      /\ WithinStored(r.store)
      /\ store' = r.store
      /\ resp' = StoreExchange("create", store.orderIdCounter, body, r,
                   getOrderItemsByOrderId(r.store, store.orderIdCounter))
      /\ UNCHANGED <<clients, procs>>

StoreEdit ==
  \E id \in StoredOrderIds, body \in StoredDialogBodies :
    \E r \in {PatchOrder(store, id, body)} :
      /\ WithinStored(r.store)
      /\ store' = r.store
      /\ resp' = StoreExchange("edit", id, body, r,
                   IF r.code = 200 THEN getOrderItemsByOrderId(r.store, id)
                   ELSE <<>>)
      /\ UNCHANGED <<clients, procs>>

StoreStatus ==
  \E id \in StoredOrderIds, body \in StoredStatusBodies :
    \E r \in {PatchOrderStatus(store, id, body.status)} :
      /\ store' = r.store
      /\ resp' = StoreExchange("status", id, body, r, <<>>)
      /\ UNCHANGED <<clients, procs>>

StoreDelete ==
  \E id \in StoredOrderIds :
    \E r \in {DeleteOrder(store, id)} :
      /\ store' = r.store
      /\ resp' = StoreExchange("delete", id, NoBody, r, <<>>)
      /\ UNCHANGED <<clients, procs>>

StoreGet ==
  \E id \in StoredOrderIds :
    \E r \in {GetOrderOnly(store, id)} :
      /\ store' = r.store
      /\ resp' = StoreExchange("get", id, NoBody, r, <<>>)
      /\ UNCHANGED <<clients, procs>>

StoreGetWithItems ==
  \E id \in StoredOrderIds :
    \E r \in {GetOrder(store, id)} :
      /\ store' = r.store
      /\ resp' = StoreExchange("getWithItems", id, NoBody, r, <<>>)
      /\ UNCHANGED <<clients, procs>>

NextStore ==
  \/ StoreMenuItem
  \/ StoreCreate
  \/ StoreEdit
  \/ StoreStatus
  \/ StoreDelete
  \/ StoreGet
  \/ StoreGetWithItems

SpecStore == InitStore /\ [][NextStore]_vars

StrictlyIncreasing(ids) == \A i, j \in 1..Len(ids) : i < j => ids[i] < ids[j]

\* C22: the ids handed out to menu items, to orders and to order items are
\* strictly increasing within each collection, so no id is handed out
\* twice, also after an order was deleted or an edit deleted and recreated
\* the items of an order.
IdAssignment ==
  /\ StrictlyIncreasing(resp.assigned.menuItems)
  /\ StrictlyIncreasing(resp.assigned.orders)
  /\ StrictlyIncreasing(resp.assigned.orderItems)

\* C22 witness: an edit recreated the items of an order after another order
\* was deleted and a menu item was created.
IdAssignmentWitness ==
  /\ resp.op = "edit" /\ resp.code = 200
  /\ \E i \in 1..Len(resp.assigned.orders) :
       resp.assigned.orders[i] \notin DOMAIN store.orders
  /\ \E i \in 1..Len(resp.assigned.orderItems) :
       resp.assigned.orderItems[i] \notin DOMAIN store.orderItems
  /\ resp.assigned.menuItems # <<>>

ItemsOf(st, id) ==
  [k \in {x \in DOMAIN st.orderItems : st.orderItems[x].orderId = id} |->
     st.orderItems[k]]

\* C30: an edit, a status update or a delete of an order leaves every other
\* order of the store as it was: its record, and its order items with their
\* ids, menu item ids and quantities.
FrameOfOrderOperations ==
  [][resp'.op \in {"edit", "status", "delete"} =>
       \A y \in DOMAIN store.orders \ {resp'.id} :
         /\ y \in DOMAIN store'.orders
         /\ store'.orders[y] = store.orders[y]
         /\ ItemsOf(store', y) = ItemsOf(store, y)]_vars

\* C30 witness: an edit recreated the items of an order, or a delete
\* removed them, while another order holds an item that is older than an
\* item that was deleted.
FrameOfOrderOperationsWitness ==
  /\ resp.op \in {"edit", "delete"} /\ resp.code \in {200, 204}
  /\ \E y \in DOMAIN store.orders \ {resp.id} :
       \E k \in DOMAIN ItemsOf(store, y) :
         \E i \in 1..Len(resp.assigned.orderItems) :
           /\ resp.assigned.orderItems[i] \notin DOMAIN store.orderItems
           /\ resp.assigned.orderItems[i] > k

-----------------------------------------------------------------------------
(* Specification SpecCheckout: one register fills its cart and calls        *)
(* createOrder while the user goes on clicking; each of the requests of     *)
(* createOrder is answered or fails.  No other client talks to the server.  *)

\* apiRequest and the reading of its response are awaited inside the try of
\* createOrder: a request that fails (no answer, or an answer that is an
\* error) is a failure that propagates to the caller of apiRequest, at the
\* GET, at the POST before the server has handled it, or at the POST after.
ApiRequestCanFail(client) == client.pc \in {"getting", "posting", "posted"}

\* A catch of createOrder that also empties the cart.
createOrderCatch_clear(client) ==
  [client EXCEPT !.pc = "idle", !.cartItems = <<>>, !.snapshot = <<>>,
                 !.body = NoBody]

\* The catch of createOrder: the error is logged and null is returned
createOrderCatch(client) ==
  [client EXCEPT !.pc = "idle", !.snapshot = <<>>, !.body = NoBody]

\* createOrder returned null
ReturnedNull == [op |-> "createOrder", id |-> 0, code |-> 0, items |-> <<>>,
                 body |-> NotFound]

\* A request of createOrder fails
CheckoutFails(c) ==
  /\ ApiRequestCanFail(clients[c])
  /\ clients' = [clients EXCEPT ![c] = createOrderCatch(clients[c])]
  /\ resp' = ReturnedNull
  /\ UNCHANGED <<store, procs>>

\* updateItemQuantity is called for an entry of the cart, between two calls
\* of createOrder.  It puts a new entry object in the place of the old one,
\* so it is kept apart from the array a createOrder in flight holds.
CheckoutUpdate(c) ==
  \E i \in 1..Len(clients[c].cartItems), q \in 0..MaxQty :
    /\ clients[c].pc = "idle"
    /\ clients' = [clients EXCEPT ![c].cartItems =
                     updateItemQuantity(@, clients[c].cartItems[i].menuItemId, q)]
    /\ UNCHANGED <<store, resp, procs>>

NextCheckout ==
  \/ AddItemToCart(TheRegister)
  \/ CheckoutUpdate(TheRegister)
  \/ CreateOrderCall(TheRegister)
  \/ CreateOrderCount(TheRegister)
  \/ CreateOrderPost(TheRegister)
  \/ CreateOrderReturn(TheRegister)
  \/ CheckoutFails(TheRegister)

SpecCheckout == Init /\ [][NextCheckout]_vars

\* createOrder returns in this step
CheckoutEnds ==
  clients[TheRegister].pc # "idle" /\ clients'[TheRegister].pc = "idle"

\* C24: when a request of createOrder fails, createOrder returns null and
\* leaves the cart as it is, so that the call can be repeated; createOrder
\* empties the cart only after its POST was answered with the new order.
FailedCreateKeepsCart ==
  [][CheckoutEnds =>
       IF resp' = ReturnedNull
       THEN clients'[TheRegister].cartItems = clients[TheRegister].cartItems
       ELSE /\ clients[TheRegister].pc = "posted"
            /\ resp.op = "create" /\ resp.code = 201
            /\ clients'[TheRegister].cartItems = <<>>]_vars

\* C24 witness: createOrder returned null after the server had stored the
\* order, and the cart holds two entries.
FailedCreateKeepsCartWitness ==
  /\ resp = ReturnedNull
  /\ clients[TheRegister].pc = "idle"
  /\ Len(clients[TheRegister].cartItems) = 2
  /\ store.orders # EmptyMap

\* C27: the server prices the lines of every cart as the cart's
\* calculateTotal does, so every order in a store whose orders were created
\* by createOrder has as its totalAmount the pooled-with-discount price of
\* its stored items.
ClientServerSamePrice ==
  /\ ComputeTotalAmount(store, CartLines) = calculateTotal(Cart)
  /\ \A id \in DOMAIN store.orders :
       store.orders[id].totalAmount
         = PooledDiscountPrice(getOrderWithItems(store, id).items)

\* C28: when createOrder empties the cart after its POST was answered,
\* every unit that is in the cart is a unit of the order that was created:
\* no unit that was added while the requests were in flight is dropped.
CheckoutClearsOnlyOrdered ==
  [][(CheckoutEnds /\ resp' # ReturnedNull) =>
       \A m \in RequestMenuIds :
         Units(clients[TheRegister].cartItems, {m})
           <= Units(resp.items, {m})
              + Units(clients'[TheRegister].cartItems, {m})]_vars


-----------------------------------------------------------------------------
(* Specification SpecKitchen: the kitchen view over the store.  Orders are  *)
(* created, moved to another status and deleted through the routes, and the  *)
(* kitchen page is opened.  Here clients is the kitchen view.  The view      *)
(* starts its query, and shows its filter buttons, once its first render is  *)
(* committed; a render that throws is not committed, the view leaves the     *)
(* page, and nothing polls.                                                  *)

\* The value undefined, and a defined value
Undefined == [defined |-> FALSE, value |-> <<>>]
Defined(v) == [defined |-> TRUE, value |-> v]

\* obj.name as object destructuring reads it: undefined when obj has no
\* property of that name
Property(obj, name) ==
  IF name \in DOMAIN obj THEN Defined(obj[name]) ELSE Undefined

\* useState(initialState): the array of the state and its setter, whose
\* properties are "0" and "1"
useState(initialState) ==
  [k \in {"0", "1"} |-> IF k = "0" THEN initialState ELSE "setState"]

ZeroCounts == [s \in Statuses |-> 0]

\* The function the view hands to useState: the counts per status of the
\* fetched orders, and the orders that pass the filter by creation time
\* (orders are created in the order of their ids).  orders is the data of
\* the query, a sequence of [id, status] by id, or undefined.
FilteredAndCounted(orders, filter) ==
  IF ~orders.defined
  THEN [filteredOrders |-> <<>>, counts |-> ZeroCounts]
  ELSE [filteredOrders |->
          SortedKeys({orders.value[i].id : i \in
                        {j \in 1..Len(orders.value) :
                           filter = "all" \/ orders.value[j].status = filter}}),
        counts |->
          [s \in Statuses |->
             Cardinality({j \in 1..Len(orders.value) :
                            orders.value[j].status = s})]]

\* The view before its first render: filter in-progress, no data
NewKitchenView ==
  [opened |-> FALSE, filter |-> "in-progress", orders |-> Undefined,
   threw |-> FALSE, filteredOrders |-> <<>>, counts |-> ZeroCounts]

\* One render of KitchenView: the result of useState is destructured by the
\* names filteredOrders and counts, and the header reads counts.new,
\* counts["in-progress"] and counts.ready, which throws when counts is
\* undefined.
KitchenViewRender(view) ==
  LET hook == useState(FilteredAndCounted(view.orders, view.filter))
      filteredOrders == Property(hook, "filteredOrders")
      counts == Property(hook, "counts")
  IN IF ~counts.defined
     THEN [view EXCEPT !.opened = TRUE, !.threw = TRUE,
                       !.filteredOrders = <<>>, !.counts = ZeroCounts]
     ELSE [view EXCEPT !.opened = TRUE, !.threw = FALSE,
                       !.filteredOrders = IF filteredOrders.defined
                                          THEN filteredOrders.value ELSE <<>>,
                       !.counts = counts.value]

InitKitchen ==
  /\ store = NewMemStorage
  /\ resp = [op |-> "none", id |-> 0, code |-> 0, items |-> <<>>,
             body |-> NotFound, bodyOk |-> FALSE, assigned |-> NoneAssigned]
  /\ clients = NewKitchenView
  /\ procs = [p \in Handlers |-> IdleHandler]

\* The route /kitchen is opened: KitchenView is rendered for the first time
\* of this visit, with a new filter state and the data the query has
KitchenOpen ==
  /\ clients' = KitchenViewRender([NewKitchenView EXCEPT
                                     !.orders = clients.orders])
  /\ resp' = [resp EXCEPT !.op = "kitchen", !.id = 0, !.code = 0,
                          !.body = NotFound, !.bodyOk = FALSE]
  /\ UNCHANGED <<store, procs>>

NextKitchen ==
  \/ StoreCreate
  \/ StoreStatus
  \/ StoreDelete
  \/ KitchenOpen

SpecKitchen == InitKitchen /\ [][NextKitchen]_vars

\* The kitchen page is opened again and again
SpecKitchenFair == SpecKitchen /\ WF_vars(KitchenOpen)

\* What an opened view shows is what its function computes from the data of
\* the query and the filter
KitchenShowsComputed ==
  clients.opened =>
    /\ ~clients.threw
    /\ clients.filteredOrders
         = FilteredAndCounted(clients.orders, clients.filter).filteredOrders
    /\ clients.counts
         = FilteredAndCounted(clients.orders, clients.filter).counts

\* An order that is in progress in the store comes to be shown by the view
\* under the in-progress filter, unless it leaves that status first
InProgressShown ==
  \A id \in StoredOrderIds :
    (id \in DOMAIN store.orders /\ store.orders[id].status = "in-progress")
      ~> \/ /\ clients.opened /\ ~clients.threw
            /\ clients.filter = "in-progress"
            /\ \E i \in 1..Len(clients.filteredOrders) :
                 clients.filteredOrders[i] = id
         \/ ~(id \in DOMAIN store.orders
              /\ store.orders[id].status = "in-progress")

\* C29: the kitchen view follows the store: the list it shows is the fetched
\* orders that pass the filter, by creation time, with the counts of the
\* fetched orders per status, and an order created in progress is
\* eventually shown under the in-progress filter.
KitchenFollowsStore == []KitchenShowsComputed /\ InProgressShown

====
